---- MODULE Spec2Model ----
(***************************************************************************)
(* A model of play.py: one run of the program from the parsed command      *)
(* line to the end of the process (GameLearning.__init__, beginPlaying,    *)
(* beginTeaching), and of the Teacher policy the training loop plays       *)
(* against.                                                                *)
(***************************************************************************)
EXTENDS Integers, Sequences, FiniteSets, TLC

VARIABLES
    pc,                 \* the position of the run in play.py
    load,               \* args.load
    plot,               \* args.plot
    teacher_episodes,   \* args.teacher_episodes: None or <<n>>
    file,               \* what ./trained_agent.pkl is on disk
    constructed,        \* GameLearning.__init__ has been entered
    games_played,       \* self.games_played
    agent,              \* self.agent: "unset", "loaded" or "new"
    began,              \* which of beginTeaching / beginPlaying were entered
    gamesStarted,       \* Game(...).start() calls made
    plots,              \* plot_agent_reward calls made
    saves,              \* agent.save_agent calls made
    reads,              \* open(agent_path, "rb") calls made
    inputs,             \* input(...) calls made
    answer,             \* the last string input(...) returned
    printed,            \* the last message written to the terminal
    outcome,            \* how the process ended, "running" until then
    board,              \* the 3x3 grid of a game, cells 0..8
    turn,               \* the mark to move
    teacherMark,        \* the mark the Teacher plays
    bothTeacher,        \* the Teacher plays both marks
    lastMove,           \* the cell chosen by the last choose_move, or NoMove
    file0,              \* what ./trained_agent.pkl was when the run started
    storedRewards,      \* the rewards list of the agent pickled in the file
    rewards,            \* self.agent.rewards
    rewards0,           \* self.agent.rewards when __init__ set the agent
    plotted,            \* the series the last plot_agent_reward call drew
    agentSets,          \* assignments to self.agent made
    gameAgent,          \* the agent the last Game was constructed with
    alpha,              \* learning rate, in tenths
    gamma,              \* discount factor, in tenths
    Q,                  \* the value table: (state key, action) -> value, in thousandths
    Q0,                 \* the value table before training
    nUpdates,           \* update calls made on the agent
    updates,            \* update calls made in the current episode
    doneUpdates,        \* of these, the calls with done = true
    lateUpdates,        \* of these, the calls made after a call with done = true
    lastUpdate          \* the reward and the done flag of the last update call

runVars  == <<pc, load, plot, teacher_episodes, file, constructed, games_played,
              agent, began, gamesStarted, plots, saves, reads, inputs, answer,
              printed, outcome>>
gameVars == <<board, turn, teacherMark, bothTeacher, lastMove>>
recVars  == <<file0, storedRewards, rewards, rewards0, plotted, agentSets, gameAgent>>
learnVars == <<alpha, gamma, Q, Q0, nUpdates, updates, doneUpdates, lateUpdates, lastUpdate>>
vars     == <<pc, load, plot, teacher_episodes, file, constructed, games_played,
              agent, began, gamesStarted, plots, saves, reads, inputs, answer,
              printed, outcome, board, turn, teacherMark, bothTeacher, lastMove,
              file0, storedRewards, rewards, rewards0, plotted, agentSets, gameAgent,
              alpha, gamma, Q, Q0, nUpdates, updates, doneUpdates, lateUpdates,
              lastUpdate>>

(***************************************************************************)
(* Bounds of the model.                                                    *)
(***************************************************************************)
MaxEpisodes == 3
MaxGames == 3
MaxInputs == 4
MaxRewards == 4
MaxUpdates == 3

(***************************************************************************)
(* Command line, agent file and terminal.                                  *)
(***************************************************************************)
None == <<>>

EpisodeArgs == {None} \cup {<<n>> : n \in (0 - 1)..MaxEpisodes}

\* ./trained_agent.pkl: absent; present but open() fails; present and
\* readable but not a pickle; a pickled agent.
FileKinds == {"missing", "unreadable", "corrupt", "valid"}

MsgNoFile      == "The agent file does not exist. Quitting."
MsgQuit        == "OK. Quitting."
MsgInvalid     == "Invalid input. Please choose 'y' or 'n'."
MsgWelcome     == "Welcome to Tic-Tac-Toe. You are 'X' and the computer is 'O'."
MsgGamesPlayed == "Games played: %i"
MsgMustLoad    == "Must load an agent to plot reward."
MsgPlotTeach   == "Cannot plot and teach concurrently; must choose one or the other."
MsgNone        == ""

ProgressEvery == 1000

\* str.lower() on the characters the answers are made of.
LowerChar(c) ==
    CASE c = "Y" -> "y"
      [] c = "E" -> "e"
      [] c = "S" -> "s"
      [] c = "N" -> "n"
      [] c = "O" -> "o"
      [] OTHER -> c

Lower(s) == [i \in DOMAIN s |-> LowerChar(s[i])]

YesAnswers == {<<"y">>, <<"y", "e", "s">>}
NoAnswers  == {<<"n">>, <<"n", "o">>}

\* What the user may type at a prompt.
Answers ==
    {<<"y">>, <<"Y">>, <<"y", "e", "s">>, <<"Y", "E", "S">>, <<"Y", "e", "s">>,
     <<"n">>, <<"N">>, <<"n", "o">>, <<"N", "o">>, <<"n", "O">>,
     <<>>, <<"x">>, <<" ", "y">>, <<"y", "e">>, <<"n", "o", "o">>, <<"0">>}

IsFile == file # "missing"

(***************************************************************************)
(* A game that is not being played (the run's specification leaves the     *)
(* inside of Game.start() to the game's own specification).                *)
(***************************************************************************)
NoMove == 9
EmptyBoard == [c \in 0..8 |-> "-"]

\* The board of the scenario: X X _ / O O _ / _ _ _
ScenarioBoard == [c \in 0..8 |-> IF c \in {0, 1} THEN "X" ELSE IF c \in {3, 4} THEN "O" ELSE "-"]

GameIdle ==
    /\ board = EmptyBoard
    /\ turn = "X"
    /\ teacherMark = "X"
    /\ bothTeacher = FALSE
    /\ lastMove = NoMove

NoUpdate == [reward |-> 0, done |-> FALSE]

\* An agent whose update is not being called.
LearnIdle ==
    /\ lastUpdate = NoUpdate
    /\ alpha = 0
    /\ gamma = 0
    /\ Q = <<>>
    /\ Q0 = <<>>
    /\ nUpdates = 0
    /\ updates = 0
    /\ doneUpdates = 0
    /\ lateUpdates = 0

(***************************************************************************)
(* plot_agent_reward                                                       *)
(***************************************************************************)
\* for reward in rewards: total += reward; cumulative_rewards.append(total)
RECURSIVE CumulativeLoop(_, _, _, _)
CumulativeLoop(rs, i, total, cumulative_rewards) ==
    IF i > Len(rs) THEN cumulative_rewards
    ELSE CumulativeLoop(rs, i + 1, total + rs[i],
                        Append(cumulative_rewards, total + rs[i]))

\* plot_agent_reward with the reward itself appended instead of the total.
plot_agent_reward_raw(rs) == [i \in 1..Len(rs) |-> rs[i]]

\* The series plot_agent_reward(rewards) hands to plt.plot.
plot_agent_reward(rs) == CumulativeLoop(rs, 1, 0, <<>>)

(***************************************************************************)
(* The reward history of the agent.                                        *)
(***************************************************************************)
\* The total reward an episode may end with: loss, draw, win.
EpisodeRewards == {-1, 0, 1}

\* The reward histories a pickled agent may hold.
StoredHistories == {<<>>, <<1>>, <<-1, 0>>}

\* record_episode_reward(total): one entry per completed episode.
record_episode_reward(rs, total) == Append(rs, total)

(***************************************************************************)
(* __main__                                                                *)
(***************************************************************************)
RunInit ==
    /\ pc = "main"
    /\ load \in BOOLEAN
    /\ plot \in BOOLEAN
    /\ teacher_episodes \in EpisodeArgs
    /\ file \in FileKinds
    /\ constructed = FALSE
    /\ games_played = 0
    /\ agent = "unset"
    /\ began = {}
    /\ gamesStarted = 0
    /\ plots = 0
    /\ saves = 0
    /\ reads = 0
    /\ inputs = 0
    /\ answer = <<>>
    /\ printed = MsgNone
    /\ outcome = "running"
    /\ file0 = file
    /\ storedRewards \in (IF file = "valid" THEN StoredHistories ELSE {<<>>})
    /\ rewards = <<>>
    /\ rewards0 = <<>>
    /\ plotted = <<>>
    /\ agentSets = 0
    /\ gameAgent = "unset"

Init == RunInit /\ GameIdle /\ LearnIdle

\* The process ends: sys.exit(0), an uncaught exception, or the end of the script.
End(how, msg) ==
    /\ pc' = "done"
    /\ outcome' = how
    /\ printed' = msg

\* self.agent = ...: the one agent of the run and its reward history.
SetAgent(kind, rs) ==
    /\ agent' = kind
    /\ rewards' = rs
    /\ rewards0' = rs
    /\ agentSets' = agentSets + 1
    /\ UNCHANGED <<file0, storedRewards, plotted, gameAgent>>

KeepAgent ==
    /\ UNCHANGED agent
    /\ UNCHANGED recVars

\* assert args.load, "Must load an agent to plot reward."
MainAssertLoad ==
    /\ pc = "main"
    /\ plot
    /\ ~load
    /\ End("AssertionError", MsgMustLoad)
    /\ UNCHANGED <<load, plot, teacher_episodes, file, constructed, games_played,
                   agent, began, gamesStarted, plots, saves, reads, inputs, answer>>
    /\ UNCHANGED gameVars
    /\ UNCHANGED recVars
    /\ UNCHANGED learnVars

\* assert args.teacher_episodes is None, "Cannot plot and teach concurrently; ..."
MainAssertTeach ==
    /\ pc = "main"
    /\ plot
    /\ load
    /\ teacher_episodes # None
    /\ End("AssertionError", MsgPlotTeach)
    /\ UNCHANGED <<load, plot, teacher_episodes, file, constructed, games_played,
                   agent, began, gamesStarted, plots, saves, reads, inputs, answer>>
    /\ UNCHANGED gameVars
    /\ UNCHANGED recVars
    /\ UNCHANGED learnVars

\* MainConstruct with the two assertions placed after the construction.
MainConstructUnchecked ==
    /\ pc = "main"
    /\ pc' = "init"
    /\ constructed' = TRUE
    /\ games_played' = 0
    /\ UNCHANGED <<load, plot, teacher_episodes, file, agent, began, gamesStarted,
                   plots, saves, reads, inputs, answer, printed, outcome>>
    /\ UNCHANGED gameVars
    /\ UNCHANGED recVars
    /\ UNCHANGED learnVars

\* gl = GameLearning(args): both assertions passed or were not reached.
MainConstruct ==
    /\ pc = "main"
    /\ plot => (load /\ teacher_episodes = None)
    /\ pc' = "init"
    /\ constructed' = TRUE
    /\ games_played' = 0
    /\ UNCHANGED <<load, plot, teacher_episodes, file, agent, began, gamesStarted,
                   plots, saves, reads, inputs, answer, printed, outcome>>
    /\ UNCHANGED gameVars
    /\ UNCHANGED recVars
    /\ UNCHANGED learnVars

(***************************************************************************)
(* GameLearning.__init__                                                   *)
(***************************************************************************)
\* InitLoad without the "if args.plot" block.
InitLoadNoPlotBlock ==
    /\ pc = "init"
    /\ load
    /\ file = "valid"
    /\ reads' = reads + 1
    /\ SetAgent("loaded", storedRewards)
    /\ pc' = "dispatch"
    /\ UNCHANGED <<load, plot, teacher_episodes, file, constructed, games_played,
                   began, gamesStarted, plots, saves, inputs, answer, printed, outcome>>
    /\ UNCHANGED gameVars
    /\ UNCHANGED learnVars

\* if args.load: open() and pickle.load() succeed.
InitLoad ==
    /\ pc = "init"
    /\ load
    /\ file = "valid"
    /\ reads' = reads + 1
    /\ SetAgent("loaded", storedRewards)
    /\ pc' = IF plot THEN "plotQuit" ELSE "dispatch"
    /\ UNCHANGED <<load, plot, teacher_episodes, file, constructed, games_played,
                   began, gamesStarted, plots, saves, inputs, answer, printed, outcome>>
    /\ UNCHANGED gameVars
    /\ UNCHANGED learnVars

\* InitLoadIOError without the sys.exit(0): the message, and the run goes on.
InitLoadIOErrorGoesOn ==
    /\ pc = "init"
    /\ load
    /\ file \in {"missing", "unreadable"}
    /\ reads' = reads + 1
    /\ printed' = MsgNoFile
    /\ pc' = "dispatch"
    /\ UNCHANGED <<load, plot, teacher_episodes, file, constructed, games_played,
                   agent, began, gamesStarted, plots, saves, inputs, answer, outcome>>
    /\ UNCHANGED gameVars
    /\ UNCHANGED recVars
    /\ UNCHANGED learnVars

\* open() raises IOError: caught, message, sys.exit(0).
InitLoadIOError ==
    /\ pc = "init"
    /\ load
    /\ file \in {"missing", "unreadable"}
    /\ reads' = reads + 1
    /\ End("exit0", MsgNoFile)
    /\ UNCHANGED <<load, plot, teacher_episodes, file, constructed, games_played,
                   agent, began, gamesStarted, plots, saves, inputs, answer>>
    /\ UNCHANGED gameVars
    /\ UNCHANGED recVars
    /\ UNCHANGED learnVars

\* pickle.load() raises (UnpicklingError, EOFError, ...): none is an IOError,
\* so the except clause does not catch it and the exception leaves the program.
InitLoadUnpickleError ==
    /\ pc = "init"
    /\ load
    /\ file = "corrupt"
    /\ reads' = reads + 1
    /\ End("UnpicklingError", printed)
    /\ UNCHANGED <<load, plot, teacher_episodes, file, constructed, games_played,
                   agent, began, gamesStarted, plots, saves, inputs, answer>>
    /\ UNCHANGED gameVars
    /\ UNCHANGED recVars
    /\ UNCHANGED learnVars

\* if args.plot: plot_agent_reward(self.agent.rewards); sys.exit(0)
InitPlotQuit ==
    /\ pc = "plotQuit"
    /\ plots' = plots + 1
    /\ End("exit0", printed)
    /\ UNCHANGED <<load, plot, teacher_episodes, file, constructed, games_played,
                   agent, began, gamesStarted, saves, reads, inputs, answer>>
    /\ UNCHANGED gameVars
    /\ plotted' = plot_agent_reward(rewards)
    /\ UNCHANGED <<file0, storedRewards, rewards, rewards0, agentSets, gameAgent>>
    /\ UNCHANGED learnVars

\* InitNoLoad without the os.path.isfile check: always a new agent.
InitNoLoadNoGuard ==
    /\ pc = "init"
    /\ ~load
    /\ pc' = "dispatch"
    /\ SetAgent("new", <<>>)
    /\ UNCHANGED <<load, plot, teacher_episodes, file, constructed, games_played,
                   began, gamesStarted, plots, saves, reads, inputs, answer,
                   printed, outcome>>
    /\ UNCHANGED gameVars
    /\ UNCHANGED learnVars

\* else: if os.path.isfile(self.agent_path): ask; otherwise a new agent.
InitNoLoad ==
    /\ pc = "init"
    /\ ~load
    /\ IF IsFile
         THEN /\ pc' = "overwrite"
              /\ KeepAgent
         ELSE /\ pc' = "dispatch"
              /\ SetAgent("new", <<>>)
    /\ UNCHANGED <<load, plot, teacher_episodes, file, constructed, games_played,
                   began, gamesStarted, plots, saves, reads, inputs, answer,
                   printed, outcome>>
    /\ UNCHANGED gameVars
    /\ UNCHANGED learnVars

\* Overwrite with every answer that is not a "no" taken as a "yes".
OverwriteDefaultYes(response) ==
    /\ pc = "overwrite"
    /\ inputs < MaxInputs
    /\ inputs' = inputs + 1
    /\ answer' = response
    /\ IF Lower(response) \in NoAnswers
         THEN /\ End("exit0", MsgQuit)
              /\ KeepAgent
         ELSE /\ SetAgent("new", <<>>)
              /\ pc' = "dispatch"
              /\ UNCHANGED <<printed, outcome>>
    /\ UNCHANGED <<load, plot, teacher_episodes, file, constructed, games_played,
                   began, gamesStarted, plots, saves, reads>>
    /\ UNCHANGED gameVars
    /\ UNCHANGED learnVars

\* One pass of the overwrite prompt's while True loop.
Overwrite(response) ==
    /\ pc = "overwrite"
    /\ inputs < MaxInputs
    /\ inputs' = inputs + 1
    /\ answer' = response
    /\ IF Lower(response) \in YesAnswers
         THEN /\ SetAgent("new", <<>>)
              /\ pc' = "dispatch"
              /\ UNCHANGED <<printed, outcome>>
         ELSE IF Lower(response) \in NoAnswers
                THEN /\ End("exit0", MsgQuit)
                     /\ KeepAgent
                ELSE /\ printed' = MsgInvalid
                     /\ UNCHANGED <<pc, outcome>>
                     /\ KeepAgent
    /\ UNCHANGED <<load, plot, teacher_episodes, file, constructed, games_played,
                   began, gamesStarted, plots, saves, reads>>
    /\ UNCHANGED gameVars
    /\ UNCHANGED learnVars

(***************************************************************************)
(* __main__, after the construction                                        *)
(***************************************************************************)
\* BeginTeaching with a new agent constructed for the training.
BeginTeachingFreshAgent ==
    /\ pc = "dispatch"
    /\ teacher_episodes # None
    /\ began' = began \cup {"beginTeaching"}
    /\ pc' = "teach"
    /\ SetAgent("new", <<>>)
    /\ UNCHANGED <<load, plot, teacher_episodes, file, constructed, games_played,
                   gamesStarted, plots, saves, reads, inputs, answer,
                   printed, outcome>>
    /\ UNCHANGED gameVars
    /\ UNCHANGED learnVars

\* if args.teacher_episodes is not None: gl.beginTeaching(...), teacher = Teacher()
BeginTeaching ==
    /\ pc = "dispatch"
    /\ teacher_episodes # None
    /\ began' = began \cup {"beginTeaching"}
    /\ pc' = "teach"
    /\ UNCHANGED <<load, plot, teacher_episodes, file, constructed, games_played,
                   agent, gamesStarted, plots, saves, reads, inputs, answer,
                   printed, outcome>>
    /\ UNCHANGED gameVars
    /\ UNCHANGED recVars
    /\ UNCHANGED learnVars

\* BeginPlaying as an "if" of its own instead of the "else" branch.
BeginPlayingAlways ==
    /\ pc = "dispatch"
    /\ began' = began \cup {"beginPlaying"}
    /\ printed' = MsgWelcome
    /\ pc' = "play"
    /\ UNCHANGED <<load, plot, teacher_episodes, file, constructed, games_played,
                   agent, gamesStarted, plots, saves, reads, inputs, answer, outcome>>
    /\ UNCHANGED gameVars
    /\ UNCHANGED recVars
    /\ UNCHANGED learnVars

\* else: gl.beginPlaying(), which prints the welcome line
BeginPlaying ==
    /\ pc = "dispatch"
    /\ teacher_episodes = None
    /\ began' = began \cup {"beginPlaying"}
    /\ printed' = MsgWelcome
    /\ pc' = "play"
    /\ UNCHANGED <<load, plot, teacher_episodes, file, constructed, games_played,
                   agent, gamesStarted, plots, saves, reads, inputs, answer, outcome>>
    /\ UNCHANGED gameVars
    /\ UNCHANGED recVars
    /\ UNCHANGED learnVars

(***************************************************************************)
(* GameLearning.beginTeaching                                              *)
(***************************************************************************)
\* The argument of beginTeaching (called only when it is not None).
Episodes == IF teacher_episodes = None THEN 0 ELSE teacher_episodes[1]

\* TeachStartGame with "<=" for "<" in the loop condition.
TeachStartGameOffByOne ==
    /\ pc = "teach"
    /\ games_played <= Episodes
    /\ gamesStarted' = gamesStarted + 1
    /\ pc' = "teachGame"
    /\ UNCHANGED <<load, plot, teacher_episodes, file, constructed, games_played,
                   agent, began, plots, saves, reads, inputs, answer, printed, outcome>>
    /\ UNCHANGED gameVars
    /\ gameAgent' = agent
    /\ UNCHANGED <<file0, storedRewards, rewards, rewards0, plotted, agentSets>>
    /\ UNCHANGED learnVars

\* while self.games_played < episodes: game = Game(...); game.start()
TeachStartGame ==
    /\ pc = "teach"
    /\ games_played < Episodes
    /\ gamesStarted' = gamesStarted + 1
    /\ pc' = "teachGame"
    /\ UNCHANGED <<load, plot, teacher_episodes, file, constructed, games_played,
                   agent, began, plots, saves, reads, inputs, answer, printed, outcome>>
    /\ UNCHANGED gameVars
    /\ gameAgent' = agent
    /\ UNCHANGED <<file0, storedRewards, rewards, rewards0, plotted, agentSets>>
    /\ UNCHANGED learnVars

\* TeachGameReturns for a game that ended without recording its reward.
TeachGameReturnsNoRecord ==
    /\ pc = "teachGame"
    /\ games_played' = games_played + 1
    /\ printed' = IF games_played' % ProgressEvery = 0 THEN MsgGamesPlayed ELSE printed
    /\ pc' = "teach"
    /\ UNCHANGED <<load, plot, teacher_episodes, file, constructed, agent, began,
                   gamesStarted, plots, saves, reads, inputs, answer, outcome>>
    /\ UNCHANGED gameVars
    /\ UNCHANGED recVars
    /\ UNCHANGED learnVars

\* game.start() returns; self.games_played += 1; progress line every 1000 games
TeachGameReturns ==
    /\ pc = "teachGame"
    /\ games_played' = games_played + 1
    /\ printed' = IF games_played' % ProgressEvery = 0 THEN MsgGamesPlayed ELSE printed
    /\ pc' = "teach"
    /\ UNCHANGED <<load, plot, teacher_episodes, file, constructed, agent, began,
                   gamesStarted, plots, saves, reads, inputs, answer, outcome>>
    /\ UNCHANGED gameVars
    /\ \E total \in EpisodeRewards : rewards' = record_episode_reward(rewards, total)
    /\ UNCHANGED <<file0, storedRewards, rewards0, plotted, agentSets, gameAgent>>
    /\ UNCHANGED learnVars

\* the loop condition is false: plot_agent_reward(self.agent.rewards)
TeachPlot ==
    /\ pc = "teach"
    /\ ~(games_played < Episodes)
    /\ plots' = plots + 1
    /\ pc' = "teachSave"
    /\ UNCHANGED <<load, plot, teacher_episodes, file, constructed, games_played,
                   agent, began, gamesStarted, saves, reads, inputs, answer,
                   printed, outcome>>
    /\ UNCHANGED gameVars
    /\ plotted' = plot_agent_reward(rewards)
    /\ UNCHANGED <<file0, storedRewards, rewards, rewards0, agentSets, gameAgent>>
    /\ UNCHANGED learnVars

\* TeachSave that saves only an agent that played at least one game.
TeachSaveIfTrained ==
    /\ pc = "teachSave"
    /\ IF games_played > 0
         THEN /\ saves' = saves + 1
              /\ file' = "valid"
              /\ storedRewards' = rewards
         ELSE UNCHANGED <<saves, file, storedRewards>>
    /\ End("returned", printed)
    /\ UNCHANGED <<load, plot, teacher_episodes, constructed, games_played,
                   agent, began, gamesStarted, plots, reads, inputs, answer>>
    /\ UNCHANGED gameVars
    /\ UNCHANGED <<file0, rewards, rewards0, plotted, agentSets, gameAgent>>
    /\ UNCHANGED learnVars

\* self.agent.save_agent(self.agent_path), then the script ends
TeachSave ==
    /\ pc = "teachSave"
    /\ saves' = saves + 1
    /\ file' = "valid"
    /\ End("returned", printed)
    /\ UNCHANGED <<load, plot, teacher_episodes, constructed, games_played,
                   agent, began, gamesStarted, plots, reads, inputs, answer>>
    /\ UNCHANGED gameVars
    /\ storedRewards' = rewards
    /\ UNCHANGED <<file0, rewards, rewards0, plotted, agentSets, gameAgent>>
    /\ UNCHANGED learnVars

(***************************************************************************)
(* GameLearning.beginPlaying                                               *)
(***************************************************************************)
\* while True: game = Game(self.agent); game.start()
PlayStartGame ==
    /\ pc = "play"
    /\ gamesStarted' = gamesStarted + 1
    /\ pc' = "playGame"
    /\ UNCHANGED <<load, plot, teacher_episodes, file, constructed, games_played,
                   agent, began, plots, saves, reads, inputs, answer, printed, outcome>>
    /\ UNCHANGED gameVars
    /\ gameAgent' = agent
    /\ UNCHANGED <<file0, storedRewards, rewards, rewards0, plotted, agentSets>>
    /\ UNCHANGED learnVars

\* game.start() returns; self.games_played += 1; play_again() prints the count
PlayGameReturns ==
    /\ pc = "playGame"
    /\ games_played' = games_played + 1
    /\ printed' = MsgGamesPlayed
    /\ pc' = "playAgain"
    /\ UNCHANGED <<load, plot, teacher_episodes, file, constructed, agent, began,
                   gamesStarted, plots, saves, reads, inputs, answer, outcome>>
    /\ UNCHANGED gameVars
    /\ \E total \in EpisodeRewards : rewards' = record_episode_reward(rewards, total)
    /\ UNCHANGED <<file0, storedRewards, rewards0, plotted, agentSets, gameAgent>>
    /\ UNCHANGED learnVars

\* PlayAgain with the agent saved when the user stops playing.
PlayAgainSavesOnQuit(play) ==
    /\ pc = "playAgain"
    /\ inputs < MaxInputs
    /\ Lower(play) \in YesAnswers => games_played < MaxGames
    /\ inputs' = inputs + 1
    /\ answer' = play
    /\ IF Lower(play) \in YesAnswers
         THEN /\ pc' = "play"
              /\ UNCHANGED <<printed, outcome, saves, file>>
         ELSE IF Lower(play) \in NoAnswers
                THEN /\ End("returned", MsgQuit)
                     /\ saves' = saves + 1
                     /\ file' = "valid"
                ELSE /\ printed' = MsgInvalid
                     /\ UNCHANGED <<pc, outcome, saves, file>>
    /\ UNCHANGED <<load, plot, teacher_episodes, constructed, games_played,
                   agent, began, gamesStarted, plots, reads>>
    /\ UNCHANGED gameVars
    /\ UNCHANGED recVars
    /\ UNCHANGED learnVars

\* PlayAgain with every answer that is not a "yes" taken as a "no".
PlayAgainDefaultNo(play) ==
    /\ pc = "playAgain"
    /\ inputs < MaxInputs
    /\ Lower(play) \in YesAnswers => games_played < MaxGames
    /\ inputs' = inputs + 1
    /\ answer' = play
    /\ IF Lower(play) \in YesAnswers
         THEN /\ pc' = "play"
              /\ UNCHANGED <<printed, outcome>>
         ELSE End("returned", MsgQuit)
    /\ UNCHANGED <<load, plot, teacher_episodes, file, constructed, games_played,
                   agent, began, gamesStarted, plots, saves, reads>>
    /\ UNCHANGED gameVars
    /\ UNCHANGED recVars
    /\ UNCHANGED learnVars

\* One pass of play_again's while True loop, and what beginPlaying does with
\* the value it returns.
PlayAgain(play) ==
    /\ pc = "playAgain"
    /\ inputs < MaxInputs
    /\ Lower(play) \in YesAnswers => games_played < MaxGames
    /\ inputs' = inputs + 1
    /\ answer' = play
    /\ IF Lower(play) \in YesAnswers
         THEN /\ pc' = "play"
              /\ UNCHANGED <<printed, outcome>>
         ELSE IF Lower(play) \in NoAnswers
                THEN End("returned", MsgQuit)
                ELSE /\ printed' = MsgInvalid
                     /\ UNCHANGED <<pc, outcome>>
    /\ UNCHANGED <<load, plot, teacher_episodes, file, constructed, games_played,
                   agent, began, gamesStarted, plots, saves, reads>>
    /\ UNCHANGED gameVars
    /\ UNCHANGED recVars
    /\ UNCHANGED learnVars

Next ==
    \/ MainAssertLoad
    \/ MainAssertTeach
    \/ MainConstruct
    \/ InitLoad
    \/ InitLoadIOError
    \/ InitLoadUnpickleError
    \/ InitPlotQuit
    \/ InitNoLoad
    \/ \E response \in Answers : Overwrite(response)
    \/ BeginTeaching
    \/ BeginPlaying
    \/ TeachStartGame
    \/ TeachGameReturns
    \/ TeachPlot
    \/ TeachSave
    \/ PlayStartGame
    \/ PlayGameReturns
    \/ \E play \in Answers : PlayAgain(play)

Spec == Init /\ [][Next]_vars

(***************************************************************************)
(* The run under the scheduling of a single-threaded program: a step that  *)
(* waits for nobody is taken. The steps of beginTeaching read no input;    *)
(* TeachGameReturns is the assumption that Game.start() returns.           *)
(***************************************************************************)
TeachNext == TeachStartGame \/ TeachGameReturns \/ TeachPlot \/ TeachSave

LiveSpec == Spec /\ WF_vars(TeachNext)

Teaching == "beginTeaching" \in began
Playing  == "beginPlaying" \in began
ValidAnswer(s) == Lower(s) \in YesAnswers \cup NoAnswers

(***************************************************************************)
(* plot_agent_reward on every reward history up to MaxRewards entries: the *)
(* run is at the plot of a --load --plot run.                              *)
(***************************************************************************)
RewardSeqs(n) == UNION {[1..k -> EpisodeRewards] : k \in 0..n}

PlotInit ==
    /\ pc = "plotQuit"
    /\ load = TRUE
    /\ plot = TRUE
    /\ teacher_episodes = None
    /\ file = "valid"
    /\ constructed = TRUE
    /\ games_played = 0
    /\ agent = "loaded"
    /\ began = {}
    /\ gamesStarted = 0
    /\ plots = 0
    /\ saves = 0
    /\ reads = 1
    /\ inputs = 0
    /\ answer = <<>>
    /\ printed = MsgNone
    /\ outcome = "running"
    /\ file0 = "valid"
    /\ storedRewards \in RewardSeqs(MaxRewards)
    /\ rewards = storedRewards
    /\ rewards0 = storedRewards
    /\ plotted = <<>>
    /\ agentSets = 1
    /\ gameAgent = "unset"
    /\ GameIdle
    /\ LearnIdle

PlotSpec == PlotInit /\ [][InitPlotQuit]_vars

(***************************************************************************)
(* BoardState: cells 0..8, row by row.                                     *)
(***************************************************************************)
Cells == 0..8
Marks == {"X", "O"}
Center == 4
Corners == {0, 2, 6, 8}
Sides == {1, 3, 5, 7}
Lines == {{0, 1, 2}, {3, 4, 5}, {6, 7, 8},
          {0, 3, 6}, {1, 4, 7}, {2, 5, 8},
          {0, 4, 8}, {2, 4, 6}}

Other(mark) == IF mark = "X" THEN "O" ELSE "X"

\* The corner across the center.
Opposite(c) == 8 - c

legal_moves(b) == {c \in Cells : b[c] = "-"}

apply(b, move, mark) == [b EXCEPT ![move] = mark]

Wins(b, mark) == \E l \in Lines : \A c \in l : b[c] = mark

winner(b) ==
    IF Wins(b, "X") THEN "X"
    ELSE IF Wins(b, "O") THEN "O"
    ELSE "none"

is_draw(b) == winner(b) = "none" /\ legal_moves(b) = {}

Terminal(b) == winner(b) # "none" \/ legal_moves(b) = {}

(***************************************************************************)
(* Teacher: the eight rules, the first that applies decides. Where a rule  *)
(* says "any", every cell it allows is a possible choice.                  *)
(***************************************************************************)
\* The cells that complete three in a row for mark.
WinningMoves(b, mark) ==
    {c \in legal_moves(b) : Wins(apply(b, c, mark), mark)}

\* The cells that give mark two winning moves at once.
ForkMoves(b, mark) ==
    {c \in legal_moves(b) : Cardinality(WinningMoves(apply(b, c, mark), mark)) >= 2}

\* The cells after which the opponent has no fork left.
ForkBlocks(b, mark) ==
    {c \in legal_moves(b) : ForkMoves(apply(b, c, mark), Other(mark)) = {}}

\* Rule 4: the one cell that prevents every fork of the opponent, else a cell
\* that blocks a single two-in-a-row of the opponent.
BlockFork(b, mark) ==
    IF ForkMoves(b, Other(mark)) = {} THEN {}
    ELSE IF Cardinality(ForkBlocks(b, mark)) = 1 THEN ForkBlocks(b, mark)
    ELSE WinningMoves(b, Other(mark))

\* Rule 6: an empty corner across an opponent's corner.
OppositeCorners(b, mark) ==
    {c \in Corners \cap legal_moves(b) : b[Opposite(c)] = Other(mark)}

\* choose_move with rule 2 (block) tried before rule 1 (win).
choose_move_block_first(b, mark) ==
    IF WinningMoves(b, Other(mark)) # {} THEN WinningMoves(b, Other(mark))
    ELSE IF WinningMoves(b, mark) # {} THEN WinningMoves(b, mark)
    ELSE IF ForkMoves(b, mark) # {} THEN ForkMoves(b, mark)
    ELSE IF BlockFork(b, mark) # {} THEN BlockFork(b, mark)
    ELSE IF b[Center] = "-" THEN {Center}
    ELSE IF OppositeCorners(b, mark) # {} THEN OppositeCorners(b, mark)
    ELSE IF Corners \cap legal_moves(b) # {} THEN Corners \cap legal_moves(b)
    ELSE Sides \cap legal_moves(b)

\* The moves choose_move(state, mark) may return.
choose_move(b, mark) ==
    IF WinningMoves(b, mark) # {} THEN WinningMoves(b, mark)
    ELSE IF WinningMoves(b, Other(mark)) # {} THEN WinningMoves(b, Other(mark))
    ELSE IF ForkMoves(b, mark) # {} THEN ForkMoves(b, mark)
    ELSE IF BlockFork(b, mark) # {} THEN BlockFork(b, mark)
    ELSE IF b[Center] = "-" THEN {Center}
    ELSE IF OppositeCorners(b, mark) # {} THEN OppositeCorners(b, mark)
    ELSE IF Corners \cap legal_moves(b) # {} THEN Corners \cap legal_moves(b)
    ELSE Sides \cap legal_moves(b)

(***************************************************************************)
(* One episode with the Teacher: it plays teacherMark against every legal  *)
(* reply, or both marks against itself. X moves first.                     *)
(***************************************************************************)
\* The run is inside game.start() of beginTeaching's first episode.
RunInGame ==
    /\ pc = "teachGame"
    /\ load = FALSE
    /\ plot = FALSE
    /\ teacher_episodes = <<1>>
    /\ file = "missing"
    /\ constructed = TRUE
    /\ games_played = 0
    /\ agent = "new"
    /\ began = {"beginTeaching"}
    /\ gamesStarted = 1
    /\ plots = 0
    /\ saves = 0
    /\ reads = 0
    /\ inputs = 0
    /\ answer = <<>>
    /\ printed = MsgNone
    /\ outcome = "running"
    /\ file0 = "missing"
    /\ storedRewards = <<>>
    /\ rewards = <<>>
    /\ rewards0 = <<>>
    /\ plotted = <<>>
    /\ agentSets = 1
    /\ gameAgent = "new"

GameInit ==
    /\ RunInGame
    /\ LearnIdle
    /\ board = EmptyBoard
    /\ turn = "X"
    /\ teacherMark \in Marks
    /\ bothTeacher \in BOOLEAN
    /\ lastMove = NoMove

Play(move) ==
    /\ board' = apply(board, move, turn)
    /\ turn' = Other(turn)
    /\ lastMove' = move
    /\ UNCHANGED <<teacherMark, bothTeacher>>
    /\ UNCHANGED runVars
    /\ UNCHANGED recVars
    /\ UNCHANGED learnVars

TeacherMove ==
    /\ ~Terminal(board)
    /\ bothTeacher \/ turn = teacherMark
    /\ \E move \in choose_move(board, turn) : Play(move)

OpponentMove ==
    /\ ~Terminal(board)
    /\ ~bothTeacher
    /\ turn # teacherMark
    /\ \E move \in legal_moves(board) : Play(move)

GameNext == TeacherMove \/ OpponentMove

GameSpec == GameInit /\ [][GameNext]_vars

(***************************************************************************)
(* choose_move as a function of any board that has a move left and no      *)
(* winner, for either mark.                                                *)
(***************************************************************************)
ChooseInit ==
    /\ RunInGame
    /\ LearnIdle
    /\ board \in [Cells -> Marks \cup {"-"}]
    /\ ~Terminal(board)
    /\ turn \in Marks
    /\ teacherMark = turn
    /\ bothTeacher = FALSE
    /\ lastMove = NoMove

Choose ==
    /\ lastMove = NoMove
    /\ \E move \in choose_move(board, turn) : lastMove' = move
    /\ UNCHANGED <<board, turn, teacherMark, bothTeacher>>
    /\ UNCHANGED runVars
    /\ UNCHANGED recVars
    /\ UNCHANGED learnVars

ChooseSpec == ChooseInit /\ [][Choose]_vars

(***************************************************************************)
(* QLearningAgent.update on a value table over a few state keys and        *)
(* actions. alpha and gamma are in tenths, values in thousandths.          *)
(***************************************************************************)
Tenth == 10
Unit == 1000

\* alpha / gamma: 0, the defaults 0.5 and 0.9, and 1.
Alphas == {0, 5, 10}
Gammas == {0, 9, 10}

StateKeys == {"k1", "k2"}
Actions == {0, 4}

\* The value tables an agent starts with: a new agent's, a loaded agent's.
InitialTables ==
    {<<>>,
     (<<"k1", 0>> :> 500) @@ (<<"k2", 4>> :> -250)}

\* The estimate of (s, a): 0.0 for a pair never stored.
QGet(q, s, a) == IF <<s, a>> \in DOMAIN q THEN q[<<s, a>>] ELSE 0

\* max over a' of Q(s', a')
MaxNext(q, s2) ==
    CHOOSE v \in {QGet(q, s2, a2) : a2 \in Actions} :
        \A a2 \in Actions : QGet(q, s2, a2) <= v

\* update with the learning rate left out: Q(s,a) <- target.
update_no_alpha(q, al, ga, s, a, reward, s2, done) ==
    (<<s, a>> :> (reward * Unit
                  + (IF done THEN 0 ELSE (ga * MaxNext(q, s2)) \div Tenth))) @@ q

\* Q(s,a) <- Q(s,a) + alpha * (reward + gamma * max Q(s',.) * (1 - done) - Q(s,a))
update(q, al, ga, s, a, reward, s2, done) ==
    LET old    == QGet(q, s, a)
        future == IF done THEN 0 ELSE (ga * MaxNext(q, s2)) \div Tenth
        target == reward * Unit + future
    IN  (<<s, a>> :> (old + (al * (target - old)) \div Tenth)) @@ q

QInit ==
    /\ RunInGame
    /\ GameIdle
    /\ alpha \in Alphas
    /\ gamma \in Gammas
    /\ Q0 \in InitialTables
    /\ Q = Q0
    /\ nUpdates = 0
    /\ updates = 0
    /\ doneUpdates = 0
    /\ lateUpdates = 0
    /\ lastUpdate = NoUpdate

\* One call agent.update(state_key, action, reward, next_state_key, done).
QUpdate ==
    /\ nUpdates < MaxUpdates
    /\ \E s \in StateKeys, a \in Actions, reward \in EpisodeRewards,
          s2 \in StateKeys, done \in BOOLEAN :
         /\ Q' = update(Q, alpha, gamma, s, a, reward, s2, done)
         /\ lastUpdate' = [reward |-> reward, done |-> done]
    /\ nUpdates' = nUpdates + 1
    /\ UNCHANGED <<alpha, gamma, Q0, updates, doneUpdates, lateUpdates>>
    /\ UNCHANGED runVars
    /\ UNCHANGED recVars
    /\ UNCHANGED gameVars

QSpec == QInit /\ [][QUpdate]_vars

(***************************************************************************)
(* One episode as the agent sees it: the opponent (Teacher or human) plays *)
(* teacherMark and may make any legal move, the agent plays the other      *)
(* mark; every agent move is followed by an update, and an opponent move   *)
(* that ends the game by one final update.                                 *)
(***************************************************************************)
AgentMark == Other(teacherMark)

\* The reward of the agent on board b: +1 win, -1 loss, 0 otherwise.
Reward(b) ==
    IF winner(b) = AgentMark THEN 1
    ELSE IF winner(b) = teacherMark THEN -1
    ELSE 0

\* The agent receives update(..., reward, ..., done).
Emit(reward, done) ==
    /\ updates' = updates + 1
    /\ doneUpdates' = doneUpdates + (IF done THEN 1 ELSE 0)
    /\ lateUpdates' = lateUpdates + (IF doneUpdates > 0 THEN 1 ELSE 0)
    /\ lastUpdate' = [reward |-> reward, done |-> done]
    /\ UNCHANGED <<alpha, gamma, Q, Q0, nUpdates>>

Place(move) ==
    /\ board' = apply(board, move, turn)
    /\ turn' = Other(turn)
    /\ lastMove' = move
    /\ UNCHANGED <<teacherMark, bothTeacher>>
    /\ UNCHANGED runVars
    /\ UNCHANGED recVars

EpisodeInit ==
    /\ RunInGame
    /\ LearnIdle
    /\ board = EmptyBoard
    /\ turn = "X"
    /\ teacherMark \in Marks
    /\ bothTeacher = FALSE
    /\ lastMove = NoMove

\* The agent moves; the transition is emitted once the resulting board is known.
AgentMove ==
    /\ ~Terminal(board)
    /\ turn = AgentMark
    /\ \E move \in legal_moves(board) :
         /\ Place(move)
         /\ Emit(Reward(apply(board, move, turn)), Terminal(apply(board, move, turn)))

\* OpponentReply without the final update for a game the opponent ended.
OpponentReplySilent ==
    /\ ~Terminal(board)
    /\ turn = teacherMark
    /\ \E move \in legal_moves(board) :
         /\ Place(move)
         /\ UNCHANGED learnVars

\* The opponent moves; if that ends the game the agent gets one final update.
OpponentReply ==
    /\ ~Terminal(board)
    /\ turn = teacherMark
    /\ \E move \in legal_moves(board) :
         /\ Place(move)
         /\ IF Terminal(apply(board, move, turn))
              THEN Emit(Reward(apply(board, move, turn)), TRUE)
              ELSE UNCHANGED learnVars

EpisodeNext == AgentMove \/ OpponentReply

EpisodeSpec == EpisodeInit /\ [][EpisodeNext]_vars

(***************************************************************************)
(* Claims                                                                  *)
(***************************************************************************)

\* C1: beginTeaching(N), N >= 0, entered with games_played = 0: it starts the
\* games one after another and never more than N of them, games_played grows
\* by exactly 1 when a game returns and never exceeds N, no input is read
\* while it runs, and it ends, with exactly N games started and finished.
C1_TeachingRunsToCompletion ==
    /\ []((Teaching /\ Episodes >= 0) =>
            /\ games_played <= Episodes
            /\ gamesStarted <= Episodes
            /\ gamesStarted = games_played + (IF pc = "teachGame" THEN 1 ELSE 0)
            /\ (pc \in {"teachSave", "done"} =>
                  games_played = Episodes /\ gamesStarted = Episodes))
    /\ [][Teaching =>
            /\ inputs' = inputs
            /\ games_played' \in {games_played, games_played + 1}
            /\ (games_played' = games_played + 1) <=> (pc = "teachGame" /\ pc' = "teach")]_vars
    /\ (Teaching /\ Episodes >= 0) ~> (pc = "done" /\ games_played = Episodes)

C1_Witness ==
    /\ Teaching
    /\ pc = "done"
    /\ Episodes >= 2
    /\ games_played = Episodes
    /\ gamesStarted = Episodes

\* C2: save_agent is called at most once in a run, only by beginTeaching, only
\* when no further episode will run and after the plot; a run in play mode or
\* in load-and-plot mode never calls it, and nothing else writes the file.
C2_SavedOnlyAtEndOfTraining ==
    /\ [](/\ saves <= 1
          /\ saves = 1 =>
               /\ Teaching
               /\ ~Playing
               /\ plots = 1
               /\ ~(games_played < Episodes)
               /\ gamesStarted = games_played
               /\ pc = "done"
          /\ Playing => saves = 0
          /\ plot => saves = 0)
    /\ [][file' # file => (pc = "teachSave" /\ saves' = saves + 1)]_vars

C2_Witness ==
    /\ saves = 1
    /\ Episodes >= 1
    /\ games_played = Episodes
    /\ outcome = "returned"

\* C3: with --load, whatever keeps the agent file from being loaded (missing,
\* unreadable, not a serialized agent), the run ends with a message and a
\* clean exit, never with an uncaught error.
C3_LoadFailureExitsCleanly ==
    (load /\ constructed /\ agent = "unset" /\ pc = "done") =>
        (outcome = "exit0" /\ printed = MsgNoFile)

\* C4: --plot together with --teacher_episodes, or --plot without --load, is
\* refused before GameLearning is constructed: the agent file is neither read
\* nor written, no prompt is shown, no agent is set, no game is started, and
\* the run ends with the assertion's message.
C4_ConflictRefusedBeforeConstruction ==
    (plot /\ (teacher_episodes # None \/ ~load)) =>
        /\ ~constructed
        /\ reads = 0
        /\ saves = 0
        /\ inputs = 0
        /\ plots = 0
        /\ agent = "unset"
        /\ gamesStarted = 0
        /\ began = {}
        /\ pc \in {"main", "done"}
        /\ pc = "done" =>
             /\ outcome = "AssertionError"
             /\ printed = (IF load THEN MsgPlotTeach ELSE MsgMustLoad)

C4_Witness ==
    /\ plot
    /\ load
    /\ teacher_episodes # None
    /\ pc = "done"
    /\ outcome = "AssertionError"
    /\ printed = MsgPlotTeach

\* C5: --load --plot with a loadable file: the agent is loaded, its rewards
\* are plotted exactly once and the run exits; no game is started,
\* games_played stays 0, neither loop is entered and the file is not written.
C5_LoadAndPlotOnly ==
    (load /\ plot /\ agent = "loaded") =>
        /\ pc \in {"plotQuit", "done"}
        /\ gamesStarted = 0
        /\ games_played = 0
        /\ began = {}
        /\ saves = 0
        /\ file = "valid"
        /\ plots = (IF pc = "done" THEN 1 ELSE 0)
        /\ pc = "done" => outcome = "exit0"

C5_Witness ==
    /\ load
    /\ plot
    /\ agent = "loaded"
    /\ pc = "done"
    /\ plots = 1
    /\ reads = 1

\* C6: a run enters at most one of beginTeaching and beginPlaying:
\* beginTeaching if and only if teacher_episodes was given, beginPlaying
\* otherwise, and neither in a run with --plot.
C6_RunModesExclusive ==
    /\ Cardinality(began) <= 1
    /\ Teaching => teacher_episodes # None
    /\ Playing => teacher_episodes = None
    /\ plot => began = {}
    /\ (pc \in {"teach", "teachGame", "teachSave", "play", "playGame", "playAgain"}
          \/ outcome = "returned") =>
         began = (IF teacher_episodes # None THEN {"beginTeaching"} ELSE {"beginPlaying"})

C6_Witness ==
    /\ began = {"beginTeaching"}
    /\ load
    /\ outcome = "returned"

\* C7: beginPlaying plays at least one game; the play-again question is
\* reached only from a game that returned, with games_played incremented; a
\* further game is started only after the answer y/yes; the loop ends only at
\* the question, after the answer n/no, never while a game is in progress.
C7_PlayLoopStopsBetweenEpisodes ==
    /\ []((Playing /\ pc = "done") =>
            /\ games_played >= 1
            /\ gamesStarted = games_played
            /\ Lower(answer) \in NoAnswers)
    /\ [][(pc' = "playAgain" /\ pc # "playAgain") =>
            (pc = "playGame" /\ games_played' = games_played + 1)]_vars
    /\ [][(pc' = "play" /\ pc # "play") =>
            (pc = "dispatch" \/ (pc = "playAgain" /\ Lower(answer') \in YesAnswers))]_vars
    /\ [][pc = "playGame" => pc' = "playAgain"]_vars
    /\ [][(Playing /\ pc' = "done" /\ pc # "done") =>
            (pc = "playAgain" /\ inputs' = inputs + 1 /\ Lower(answer') \in NoAnswers)]_vars

C7_Witness ==
    /\ Playing
    /\ pc = "done"
    /\ games_played >= 2
    /\ answer = <<"N", "o">>

\* C8: at the overwrite prompt and at the play-again prompt, an answer that is
\* none of y, yes, n, no (in any case) changes nothing but the terminal: the
\* same question is asked again, games_played, the agent and the agent file
\* stay as they are, no game starts and the run does not end.
C8_InvalidInputAsksAgain ==
    [][(pc \in {"overwrite", "playAgain"} /\ inputs' = inputs + 1 /\ ~ValidAnswer(answer')) =>
         /\ pc' = pc
         /\ printed' = MsgInvalid
         /\ games_played' = games_played
         /\ gamesStarted' = gamesStarted
         /\ agent' = agent
         /\ file' = file
         /\ saves' = saves
         /\ began' = began
         /\ outcome' = outcome
         /\ outcome' = "running"]_vars

C8_Witness ==
    /\ pc = "playAgain"
    /\ games_played = 1
    /\ inputs >= 3
    /\ printed = MsgInvalid
    /\ ~ValidAnswer(answer)
    /\ agent = "loaded"

\* C9: the Teacher never loses: whichever mark it plays and whatever legal
\* moves the opponent makes from the empty board, the opponent never has
\* three in a row; Teacher against Teacher always ends in a draw.
C9_TeacherNeverLoses ==
    /\ ~bothTeacher => winner(board) # Other(teacherMark)
    /\ (bothTeacher /\ Terminal(board)) => is_draw(board)

\* C10 as stated: on [X,X,_,O,O,_,_,_,_] with O to move choose_move returns
\* cell 2.
C10_ScenarioReturnsBlock ==
    (board = ScenarioBoard /\ turn = "O" /\ lastMove # NoMove) => lastMove = 2

\* C10 as amended: on [X,X,_,O,O,_,_,_,_] with O to move choose_move returns
\* cell 5, O's own winning move: rule 1 is tried before rule 2.
C10_ScenarioReturnsWin ==
    (board = ScenarioBoard /\ turn = "O" /\ lastMove # NoMove) => lastMove = 5

C10_Witness ==
    /\ board = ScenarioBoard
    /\ turn = "O"
    /\ WinningMoves(board, "X") = {2}
    /\ lastMove = 5

\* C11: with alpha = 0 every update leaves every estimate as it was: after
\* any sequence of update calls the value of every (state key, action) pair
\* is its value before training, 0.0 for a pair never stored.
C11_AlphaZeroChangesNothing ==
    alpha = 0 =>
        \A s \in StateKeys, a \in Actions : QGet(Q, s, a) = QGet(Q0, s, a)

C11_Witness ==
    /\ alpha = 0
    /\ gamma = 9
    /\ nUpdates = MaxUpdates
    /\ Q0 # <<>>
    /\ DOMAIN Q # DOMAIN Q0
    /\ lastUpdate = [reward |-> 1, done |-> FALSE]

\* C16: an opponent move that ends the game gives the agent exactly one more
\* update, for that outcome and with done = true, although the agent did not
\* move; no update follows an update with done = true; an episode that has
\* ended has had exactly one update with done = true.
C16_OneFinalUpdate ==
    /\ [](doneUpdates = (IF Terminal(board) THEN 1 ELSE 0))
    /\ [](lateUpdates = 0)
    /\ [][(turn = teacherMark /\ Terminal(board')) =>
            /\ updates' = updates + 1
            /\ doneUpdates' = doneUpdates + 1
            /\ lastUpdate' = [reward |-> (IF winner(board') = teacherMark THEN -1 ELSE 0),
                              done |-> TRUE]]_vars
    /\ [][(turn = teacherMark /\ ~Terminal(board')) => updates' = updates]_vars
    /\ [][~Terminal(board)]_vars

C16_Witness ==
    /\ Terminal(board)
    /\ winner(board) = teacherMark
    /\ turn = AgentMark
    /\ updates = 3
    /\ doneUpdates = 1
    /\ lastUpdate = [reward |-> -1, done |-> TRUE]

\* The sum of the first i entries of rs.
RECURSIVE SumUpTo(_, _)
SumUpTo(rs, i) == IF i = 0 THEN 0 ELSE SumUpTo(rs, i - 1) + rs[i]

C13_PlotIsCumulativeSum ==
    /\ [](plots = 1 =>
            /\ Len(plotted) = Len(rewards)
            /\ \A i \in 1..Len(rewards) : plotted[i] = SumUpTo(rewards, i))
    /\ [][rewards' = rewards]_vars

C13_Witness ==
    /\ plots = 1
    /\ rewards = <<1, -1, 1, 1>>
    /\ plotted = <<1, 0, 1, 2>>

\* C14: a run whose load of the agent file fails sets no agent, starts no
\* game, plots nothing and saves nothing; every game is started with the
\* agent of the run, which was loaded successfully or newly constructed.
C14_NoRunWithUndefinedAgent ==
    /\ (load /\ file0 # "valid") =>
         /\ agent = "unset"
         /\ agentSets = 0
         /\ gamesStarted = 0
         /\ plots = 0
         /\ saves = 0
         /\ began = {}
         /\ file = file0
    /\ gamesStarted > 0 => (gameAgent \in {"loaded", "new"} /\ gameAgent = agent)
    /\ agent = "loaded" => (load /\ file0 = "valid" /\ reads = 1)
    /\ agent = "new" => (~load /\ reads = 0)

C14_Witness ==
    /\ load
    /\ file0 = "unreadable"
    /\ reads = 1
    /\ pc = "done"
    /\ agent = "unset"

\* C15: self.agent is assigned exactly once, in __init__, either loaded or
\* newly constructed, and never replaced; every episode of beginTeaching and
\* of beginPlaying constructs one more Game, with that agent.
C15_OneAgentManyGames ==
    /\ [](/\ agentSets <= 1
          /\ (agentSets = 1) <=> (agent # "unset")
          /\ agent # "unset" => constructed
          /\ agent = "loaded" => load
          /\ agent = "new" => ~load
          /\ began # {} => agentSets = 1
          /\ gamesStarted > 0 => gameAgent = agent)
    /\ [][agent' # agent => (agent = "unset" /\ pc \in {"init", "overwrite"})]_vars
    /\ [][(pc' \in {"teachGame", "playGame"} /\ pc' # pc) =>
            (gamesStarted' = gamesStarted + 1 /\ gameAgent' = agent /\ agent' = agent)]_vars
    /\ [][gamesStarted' # gamesStarted => pc' \in {"teachGame", "playGame"}]_vars

C15_Witness ==
    /\ Playing
    /\ gamesStarted = 3
    /\ agent = "loaded"
    /\ gameAgent = "loaded"
    /\ agentSets = 1

\* C17: in a run without --load that finds an agent file, the agent is
\* constructed only by the answer y/yes to the overwrite prompt, and until
\* then no game is started and the file is untouched; the answer n/no ends the
\* run with no agent, no game and the file as it was. A file that existed is
\* overwritten only by a run that loaded it or whose user confirmed.
C17_OverwriteOnlyWhenConfirmed ==
    /\ []((~load /\ file0 # "missing" /\ agent = "unset") =>
            (gamesStarted = 0 /\ saves = 0 /\ file = file0 /\ began = {}))
    /\ [][(~load /\ file0 # "missing" /\ agent' # agent) =>
            (pc = "overwrite" /\ inputs' = inputs + 1 /\ Lower(answer') \in YesAnswers)]_vars
    /\ [][(pc = "overwrite" /\ inputs' = inputs + 1 /\ Lower(answer') \in NoAnswers) =>
            /\ pc' = "done"
            /\ outcome' = "exit0"
            /\ agent' = "unset"
            /\ gamesStarted' = 0
            /\ saves' = 0
            /\ file' = file0]_vars
    /\ []((saves > 0 /\ file0 # "missing") =>
            (agent = "loaded" \/ (~load /\ inputs >= 1 /\ Lower(answer) \in YesAnswers)))

C17_Witness ==
    /\ ~load
    /\ file0 = "corrupt"
    /\ saves = 1
    /\ file = "valid"
    /\ answer = <<"Y", "E", "S">>
    /\ inputs = 2

\* C18: beginTeaching with teacher_episodes <= 0 starts no game and leaves
\* games_played at 0, and still plots once and calls save_agent once: the
\* file then holds the agent as __init__ set it, with no training of this run.
C18_ZeroBudgetStillSaves ==
    (Teaching /\ Episodes <= 0) =>
        /\ pc \in {"teach", "teachSave", "done"}
        /\ gamesStarted = 0
        /\ games_played = 0
        /\ rewards = rewards0
        /\ pc = "done" =>
             /\ outcome = "returned"
             /\ plots = 1
             /\ saves = 1
             /\ file = "valid"
             /\ storedRewards = rewards0

C18_Witness ==
    /\ Teaching
    /\ Episodes = 0
    /\ pc = "done"
    /\ saves = 1
    /\ file0 = "valid"
    /\ agent = "new"
    /\ file = "valid"
    /\ storedRewards = <<>>

====
